---- MODULE Spec2Model ----
(***************************************************************************)
(* Model of BaseClient (packages/sdk-util/src/index.js): the generated     *)
(* subscription functions, the shared socket/channel and the handlers      *)
(* registered on the socket.  One action per handler or continuation; the  *)
(* socket, the channel and the server are the environment.                 *)
(***************************************************************************)
EXTENDS Integers, Sequences, FiniteSets, TLC

\* ---------------------------------------------------------------- bounds
NumCalls  == 2   \* subscribe calls made by the application
NumArgs   == 2   \* distinct argument values of the subscription operation
NumSubIds == 2   \* subscription ids the server can hand out
NumData   == 2   \* distinct payloads of subscription:data
MaxMsgs   == 2   \* messages the server sends in one run
MaxErrors == 1   \* transport errors in one run
NumReqs   == 2   \* query / mutation calls made by the application
NumTypes  == 2   \* object types of the schema

Calls   == 1..NumCalls
Args    == 1..NumArgs
SockIds == 1..NumCalls       \* a call creates at most one socket
EmIds   == 1..NumCalls       \* a call creates at most one EventEmitter
SubIds  == 1..NumSubIds
Data    == 1..NumData
Events  == {"subscription:data", "phx_reply"}

Undefined == 0               \* JS undefined / a slot never assigned
NoResult  == -1              \* promise not resolved
Missing   == -2              \* call-time arguments lacking a required argument

Reqs  == 1..NumReqs
Kinds == {"query", "mutation"}

Types     == 1..NumTypes
Names     == {"sub", "getUser"}     \* operation names a schema may use
RootKinds == {"query", "subscription", "mutation"}

StatusOK == 200              \* the status _doRequest accepts
Statuses == {StatusOK, 201, 500}

Settled == {"cached", "acked", "joinRejected", "pushRejected", "argRejected"}

\* --------------------------------------------------------- pure functions
\* builders[key](args) throws when a required argument is missing
builderThrows(a) == a = Missing

\* builders[key](args): the rendered operation of the one subscription field
builder(a) == [key |-> "sub", args |-> a]

\* _getQueryId(query): stable fingerprint of the rendered operation
_getQueryId(query) == 100 + query.args

QueryIds == {_getQueryId(builder(a)) : a \in Args}

VARIABLES
  pc,            \* position of each subscribe call
  callArgs,      \* arguments the call was made with (Undefined before it starts)
  callQid,       \* queryId computed by the call
  callChan,      \* channel the call awaits / pushes on
  result,        \* value the call's promise resolved to
  ackSid,        \* subscriptionId acknowledged to the call's push
  before,        \* calls already settled when the call started
  subscriptions, \* this.subscriptions: queryId -> EventEmitter (Undefined: no key)
  keyOrder,      \* Object.keys(this.subscriptions): insertion order
  emSubId,       \* emitter.subscriptionId
  log,           \* events emitted on each EventEmitter
  nextEm,        \* next EventEmitter to allocate
  socket,        \* this.socket
  channel,       \* this.channel (the channel of socket with the same id)
  sockState,     \* "none" | "connecting" | "open" | "closed"
  chanState,     \* "none" | "joining" | "joined" | "errored"
  inbox,         \* messages received on each socket, not yet handled
  timers,        \* reconnect timers armed by each socket's onConnError
  awaitingRetry, \* socket reported an error and connect() was not called on it since
  nextSock,      \* next socket to allocate
  joins,         \* channel.join() calls issued
  pushCount,     \* 'doc' pushes issued per queryId
  sidOwner,      \* server: the query a subscription id stands for
  sent,          \* messages sent by the server
  handledData,   \* subscription:data messages handled by onMessage
  rcvd,          \* the subscription:data messages in the order onMessage received them
  errs,          \* transport errors so far
  reqPc,         \* position of each query / mutation call
  reqKind,       \* "query" | "mutation" ("none" before the call starts)
  reqArgs,       \* arguments of the call
  reqStatus,     \* res.status of the response (Undefined: none yet)
  reqData,       \* res.data.data of the response
  reqResult,     \* value the call's promise resolved to
  posts,         \* axios.post calls made
  roots,         \* schema: per root kind, whether the root type exists and its fields
  enable,        \* config.enableQuery / enableSubscription / enableMutation
  refs,          \* schema types: the object types the fields of each type return
  retType,       \* schema: the type each operation returns
  self,          \* the function-valued properties of the client object
  constructed    \* the constructor has run

callVars == <<pc, callArgs, callQid, callChan, result, ackSid, before>>
subVars  == <<subscriptions, keyOrder, emSubId, log, nextEm>>
connVars == <<socket, channel, sockState, chanState, timers, awaitingRetry, nextSock, joins>>
envVars  == <<sidOwner, sent, errs>>
reqVars  == <<reqPc, reqKind, reqArgs, reqStatus, reqData, reqResult, posts>>
ctorVars == <<roots, enable, refs, retType, self, constructed>>
auxVars  == <<reqVars, ctorVars>>
vars == <<pc, callArgs, callQid, callChan, result, ackSid, before,
          subscriptions, keyOrder, emSubId, log, nextEm,
          socket, channel, sockState, chanState, inbox, timers, awaitingRetry,
          nextSock, joins, pushCount, sidOwner, sent, handledData, rcvd, errs,
          reqPc, reqKind, reqArgs, reqStatus, reqData, reqResult, posts,
          roots, enable, refs, retType, self, constructed>>

\* a property that holds no generated function
NoProp == [type |-> "none", builder |-> {}]

\* mutant of Paths: the walk is cut by depth only, not by re-entry
RECURSIVE Paths_depth(_, _, _)
Paths_depth(g, t, onPath) ==
  {<<t>>} \cup
  UNION {{<<t>> \o p : p \in Paths_depth(g, u, onPath \cup {Cardinality(onPath) + 1})}
           : u \in IF Cardinality(onPath) < NumTypes THEN g[t] ELSE {}}

\* the selection set rendered for type t, as the set of type paths it
\* contains: a field whose type is already on the path is left out
RECURSIVE Paths(_, _, _)
Paths(g, t, onPath) ==
  {<<t>>} \cup
  UNION {{<<t>> \o p : p \in Paths(g, u, onPath \cup {t})}
           : u \in g[t] \ (onPath \cup {t})}

\* getQueryBuilders / getSubscriptionBuilders / getMutationBuilders: one
\* builder per field of the root type
getBuilders(sch, g, rt, kind) ==
  [n \in sch[kind].fields |-> Paths(g, rt[n], {})]

\* mutant of generateFns: a name already taken by another kind is kept
generateFns_keep(obj, sch, en, g, rt, kind) ==
  IF ~en[kind] \/ ~sch[kind].present THEN obj
  ELSE LET builders == getBuilders(sch, g, rt, kind) IN
       [n \in Names |->
          IF n \in DOMAIN builders /\ obj[n].type = "none"
          THEN [type |-> kind, builder |-> builders[n]] ELSE obj[n]]

\* generateQueryFns / generateSubscriptionFns / generateMutationFns:
\* this[key] = fn for every key of the builders, fn.type = kind
generateFns(obj, sch, en, g, rt, kind) ==
  IF ~en[kind] \/ ~sch[kind].present THEN obj
  ELSE LET builders == getBuilders(sch, g, rt, kind) IN
       [n \in Names |->
          IF n \in DOMAIN builders
          THEN [type |-> kind, builder |-> builders[n]] ELSE obj[n]]

\* the constructor: queries, then subscriptions, then mutations
Built(sch, en, g, rt) ==
  LET o0 == [n \in Names |-> NoProp]
      o1 == generateFns(o0, sch, en, g, rt, "query")
      o2 == generateFns(o1, sch, en, g, rt, "subscription")
  IN  generateFns(o2, sch, en, g, rt, "mutation")

\* _getApiList(type)
_getApiList(type) == {x \in Names : self[x].type = type}

\* the schema of the client whose calls are modelled: a query and a subscription
ClientRoots ==
  [k \in RootKinds |->
     IF k = "query" THEN [present |-> TRUE, fields |-> {"getUser"}]
     ELSE IF k = "subscription" THEN [present |-> TRUE, fields |-> {"sub"}]
     ELSE [present |-> FALSE, fields |-> {}]]

\* the state of the calls and of the connection after construction
ClientInit ==
  /\ pc = [c \in Calls |-> "idle"]
  /\ callArgs = [c \in Calls |-> Undefined]
  /\ callQid = [c \in Calls |-> Undefined]
  /\ callChan = [c \in Calls |-> Undefined]
  /\ result = [c \in Calls |-> NoResult]
  /\ ackSid = [c \in Calls |-> Undefined]
  /\ before = [c \in Calls |-> {}]
  /\ subscriptions = [q \in QueryIds |-> Undefined]
  /\ keyOrder = <<>>
  /\ emSubId = [e \in EmIds |-> Undefined]
  /\ log = [e \in EmIds |-> <<>>]
  /\ nextEm = 1
  /\ socket = Undefined
  /\ channel = Undefined
  /\ sockState = [s \in SockIds |-> "none"]
  /\ chanState = [s \in SockIds |-> "none"]
  /\ inbox = [s \in SockIds |-> <<>>]
  /\ timers = [s \in SockIds |-> 0]
  /\ awaitingRetry = [s \in SockIds |-> FALSE]
  /\ nextSock = 1
  /\ joins = 0
  /\ pushCount = [q \in QueryIds |-> 0]
  /\ sidOwner = [i \in SubIds |-> Undefined]
  /\ sent = 0
  /\ handledData = 0
  /\ rcvd = <<>>
  /\ errs = 0
  /\ reqPc = [r \in Reqs |-> "idle"]
  /\ reqKind = [r \in Reqs |-> "none"]
  /\ reqArgs = [r \in Reqs |-> Undefined]
  /\ reqStatus = [r \in Reqs |-> Undefined]
  /\ reqData = [r \in Reqs |-> Undefined]
  /\ reqResult = [r \in Reqs |-> NoResult]
  /\ posts = 0

Init ==
  /\ roots = ClientRoots
  /\ enable = [k \in RootKinds |-> TRUE]
  /\ refs = [t \in Types |-> {}]
  /\ retType = [n \in Names |-> 1]
  /\ self = Built(roots, enable, refs, retType)
  /\ constructed = TRUE
  /\ ClientInit


\* ------------------------------------------------------------ helpers
\* no continuation of an await is pending: handlers of socket events and
\* timers run only when the microtask queue is empty
NoMicrotask == \A c \in Calls : pc[c] # "gotChannel"

\* channel.isJoined()
isJoined(ch) == chanState[ch] = "joined"

\* this.subscriptions[queryId].emitter: the EventEmitter stored at line 150
\* is never given an `emitter` property
EmitterProp(e) == Undefined

\* socket.connect(): no effect unless the socket is closed
connect(st, s) == IF st[s] = "closed" THEN [st EXCEPT ![s] = "connecting"] ELSE st

\* mutant of find: the predicate ignores the subscriptionId
find_first(keys, sid) ==
  IF keys = <<>> THEN Undefined ELSE Head(keys)

\* mutant of find: an unknown subscriptionId falls back to the last key
find_default(keys, sid) ==
  IF keys = <<>> THEN Undefined
  ELSE IF \E i \in 1..Len(keys) : emSubId[subscriptions[keys[i]]] = sid
       THEN keys[CHOOSE i \in 1..Len(keys) : emSubId[subscriptions[keys[i]]] = sid]
       ELSE keys[Len(keys)]

\* Object.keys(this.subscriptions).find(x => subscriptions[x].subscriptionId === sid)
RECURSIVE find(_, _)
find(keys, sid) ==
  IF keys = <<>> THEN Undefined
  ELSE IF emSubId[subscriptions[Head(keys)]] = sid THEN Head(keys)
       ELSE find(Tail(keys), sid)

\* emitter.emit(kind, payload)
emit(lg, e, kind, payload) == [lg EXCEPT ![e] = Append(@, <<kind, payload>>)]

\* --------------------------------------------------------------- actions
\* subscriptionFn(args) up to its first await, with the synchronous part of
\* _ensureSubscriptionChannel
Subscribe(c, a) ==
  /\ pc[c] = "idle"
  /\ \A d \in Calls : d < c => pc[d] # "idle"
  /\ callArgs' = [callArgs EXCEPT ![c] = a]
  /\ before' = [before EXCEPT ![c] = {d \in Calls : pc[d] \in Settled}]
  /\ IF builderThrows(a)
     THEN /\ pc' = [pc EXCEPT ![c] = "argRejected"]
          /\ UNCHANGED <<callQid, callChan, result, connVars>>
     ELSE
     LET queryId == _getQueryId(builder(a)) IN
     /\ callQid' = [callQid EXCEPT ![c] = queryId]
     /\ IF subscriptions[queryId] # Undefined
        THEN /\ pc' = [pc EXCEPT ![c] = "cached"]
             /\ result' = [result EXCEPT ![c] = EmitterProp(subscriptions[queryId])]
             /\ UNCHANGED <<callChan, connVars>>
        ELSE IF channel # Undefined /\ isJoined(channel)
        THEN /\ pc' = [pc EXCEPT ![c] = "gotChannel"]
             /\ callChan' = [callChan EXCEPT ![c] = channel]
             /\ UNCHANGED <<result, connVars>>
        ELSE /\ pc' = [pc EXCEPT ![c] = "awaitJoin"]
             /\ callChan' = [callChan EXCEPT ![c] = nextSock]
             /\ socket' = nextSock
             /\ sockState' = [sockState EXCEPT ![nextSock] = "connecting"]
             /\ channel' = nextSock
             /\ chanState' = [chanState EXCEPT ![nextSock] = "joining"]
             /\ joins' = joins + 1
             /\ nextSock' = nextSock + 1
             /\ UNCHANGED <<result, timers, awaitingRetry>>
  /\ UNCHANGED <<ackSid, subVars, inbox, pushCount, handledData, rcvd, envVars>>
  /\ UNCHANGED auxVars

\* the socket reports open
SocketOpen(s) ==
  /\ NoMicrotask
  /\ sockState[s] = "connecting"
  /\ sockState' = [sockState EXCEPT ![s] = "open"]
  /\ UNCHANGED <<callVars, subVars, socket, channel, chanState, inbox, timers,
                 awaitingRetry, nextSock, joins, pushCount, handledData, rcvd, envVars>>
  /\ UNCHANGED auxVars

\* the channel of an open socket joins again after an error
ChannelRejoin(s) ==
  /\ NoMicrotask
  /\ sockState[s] = "open"
  /\ chanState[s] = "errored"
  /\ chanState' = [chanState EXCEPT ![s] = "joining"]
  /\ UNCHANGED <<callVars, subVars, socket, channel, sockState, inbox, timers,
                 awaitingRetry, nextSock, joins, pushCount, handledData, rcvd, envVars>>
  /\ UNCHANGED auxVars

\* join().receive('ok'): resolve(this.channel) for the callers awaiting this join
JoinOk(s) ==
  /\ NoMicrotask
  /\ sockState[s] = "open"
  /\ chanState[s] = "joining"
  /\ chanState' = [chanState EXCEPT ![s] = "joined"]
  /\ pc' = [c \in Calls |->
              IF pc[c] = "awaitJoin" /\ callChan[c] = s THEN "gotChannel" ELSE pc[c]]
  /\ callChan' = [c \in Calls |->
              IF pc[c] = "awaitJoin" /\ callChan[c] = s THEN channel ELSE callChan[c]]
  /\ UNCHANGED <<callArgs, callQid, result, ackSid, before, subVars, socket, channel, sockState,
                 inbox, timers, awaitingRetry, nextSock, joins, pushCount, handledData, rcvd, envVars>>
  /\ UNCHANGED auxVars

\* join().receive('error'): reject(err)
JoinError(s) ==
  /\ NoMicrotask
  /\ sockState[s] = "open"
  /\ chanState[s] = "joining"
  /\ chanState' = [chanState EXCEPT ![s] = "errored"]
  /\ pc' = [c \in Calls |->
              IF pc[c] = "awaitJoin" /\ callChan[c] = s THEN "joinRejected" ELSE pc[c]]
  /\ UNCHANGED <<callArgs, callQid, callChan, result, ackSid, before, subVars, socket, channel,
                 sockState, inbox, timers, awaitingRetry, nextSock, joins, pushCount,
                 handledData, rcvd, envVars>>
  /\ UNCHANGED auxVars

\* continuation after the await: channel.push('doc', { query })
Push(c) ==
  /\ pc[c] = "gotChannel"
  /\ pc' = [pc EXCEPT ![c] = "awaitPush"]
  /\ pushCount' = [pushCount EXCEPT ![callQid[c]] = @ + 1]
  /\ UNCHANGED <<callArgs, callQid, callChan, result, ackSid, before, subVars, connVars, inbox,
                 handledData, rcvd, envVars>>
  /\ UNCHANGED auxVars

\* mutant of PushOk: one EventEmitter shared by all subscriptions
PushOk_shared(c, sid) ==
  /\ NoMicrotask
  /\ pc[c] = "awaitPush"
  /\ sockState[callChan[c]] = "open"
  /\ isJoined(callChan[c])
  /\ sidOwner[sid] \in {Undefined, callQid[c]}
  /\ LET queryId == callQid[c]
         e == IF nextEm > 1 THEN 1 ELSE nextEm IN
     /\ subscriptions' = [subscriptions EXCEPT ![queryId] = e]
     /\ keyOrder' = IF subscriptions[queryId] = Undefined
                    THEN Append(keyOrder, queryId) ELSE keyOrder
     /\ emSubId' = [emSubId EXCEPT ![e] = sid]
     /\ result' = [result EXCEPT ![c] = e]
     /\ sidOwner' = [sidOwner EXCEPT ![sid] = queryId]
     /\ nextEm' = IF nextEm > 1 THEN nextEm ELSE nextEm + 1
  /\ ackSid' = [ackSid EXCEPT ![c] = sid]
  /\ pc' = [pc EXCEPT ![c] = "acked"]
  /\ UNCHANGED <<callArgs, callQid, callChan, before, log, connVars, inbox, pushCount,
                 sent, handledData, rcvd, errs>>
  /\ UNCHANGED auxVars

\* push.receive('ok', res): new EventEmitter stored under queryId
PushOk(c, sid) ==
  /\ NoMicrotask
  /\ pc[c] = "awaitPush"
  /\ sockState[callChan[c]] = "open"
  /\ isJoined(callChan[c])
  /\ sidOwner[sid] \in {Undefined, callQid[c]}
  /\ LET queryId == callQid[c] IN
     /\ subscriptions' = [subscriptions EXCEPT ![queryId] = nextEm]
     /\ keyOrder' = IF subscriptions[queryId] = Undefined
                    THEN Append(keyOrder, queryId) ELSE keyOrder
     /\ emSubId' = [emSubId EXCEPT ![nextEm] = sid]
     /\ result' = [result EXCEPT ![c] = nextEm]
     /\ sidOwner' = [sidOwner EXCEPT ![sid] = queryId]
  /\ nextEm' = nextEm + 1
  /\ ackSid' = [ackSid EXCEPT ![c] = sid]
  /\ pc' = [pc EXCEPT ![c] = "acked"]
  /\ UNCHANGED <<callArgs, callQid, callChan, before, log, connVars, inbox, pushCount, sent,
                 handledData, rcvd, errs>>
  /\ UNCHANGED auxVars

\* mutant of PushError: a record is stored although the push was rejected
PushError_record(c) ==
  /\ NoMicrotask
  /\ pc[c] = "awaitPush"
  /\ sockState[callChan[c]] = "open"
  /\ isJoined(callChan[c])
  /\ pc' = [pc EXCEPT ![c] = "pushRejected"]
  /\ subscriptions' = [subscriptions EXCEPT ![callQid[c]] = nextEm]
  /\ keyOrder' = IF subscriptions[callQid[c]] = Undefined
                 THEN Append(keyOrder, callQid[c]) ELSE keyOrder
  /\ nextEm' = nextEm + 1
  /\ UNCHANGED <<callArgs, callQid, callChan, result, ackSid, before, emSubId, log,
                 connVars, inbox, pushCount, handledData, rcvd, envVars>>
  /\ UNCHANGED auxVars

\* push.receive('error', err): reject(err)
PushError(c) ==
  /\ NoMicrotask
  /\ pc[c] = "awaitPush"
  /\ sockState[callChan[c]] = "open"
  /\ isJoined(callChan[c])
  /\ pc' = [pc EXCEPT ![c] = "pushRejected"]
  /\ UNCHANGED <<callArgs, callQid, callChan, result, ackSid, before, subVars, connVars, inbox,
                 pushCount, handledData, rcvd, envVars>>
  /\ UNCHANGED auxVars

\* the push gets no reply in time: no 'timeout' hook is registered, and a
\* late reply is ignored, so neither resolve nor reject is ever called
PushTimeout(c) ==
  /\ NoMicrotask
  /\ pc[c] = "awaitPush"
  /\ pc' = [pc EXCEPT ![c] = "pushTimeout"]
  /\ UNCHANGED <<callArgs, callQid, callChan, result, ackSid, before, subVars, connVars,
                 inbox, pushCount, handledData, rcvd, envVars>>
  /\ UNCHANGED auxVars

\* the server sends a message on an open socket
ServerSend(s, ev, sid, d) ==
  /\ sockState[s] = "open"
  /\ sent < MaxMsgs
  /\ ev # "subscription:data" => sid = 1 /\ d = 1
  /\ sent' = sent + 1
  /\ inbox' = [inbox EXCEPT ![s] =
                 Append(@, [event |-> ev, subscriptionId |-> sid, data |-> d])]
  /\ UNCHANGED <<callVars, subVars, connVars, pushCount, sidOwner, handledData, rcvd, errs>>
  /\ UNCHANGED auxVars

\* mutant of OnMessage: the newest event is put in front of the earlier ones
OnMessage_prepend(s) ==
  /\ NoMicrotask
  /\ inbox[s] # <<>>
  /\ inbox' = [inbox EXCEPT ![s] = Tail(@)]
  /\ LET m == Head(inbox[s])
         queryId == find(keyOrder, m.subscriptionId) IN
     /\ IF m.event = "subscription:data" /\ queryId # Undefined
        THEN log' = [log EXCEPT ![subscriptions[queryId]] = <<<<"data", m.data>>>> \o @]
        ELSE log' = log
     /\ handledData' = IF m.event = "subscription:data"
                        THEN handledData + 1 ELSE handledData
     /\ rcvd' = IF m.event = "subscription:data" THEN Append(rcvd, m) ELSE rcvd
  /\ UNCHANGED <<callVars, subscriptions, keyOrder, emSubId, nextEm, connVars,
                 pushCount, envVars>>
  /\ UNCHANGED auxVars

\* socket.onMessage handler
OnMessage(s) ==
  /\ NoMicrotask
  /\ inbox[s] # <<>>
  /\ inbox' = [inbox EXCEPT ![s] = Tail(@)]
  /\ LET m == Head(inbox[s])
         queryId == find(keyOrder, m.subscriptionId) IN
     /\ IF m.event = "subscription:data" /\ queryId # Undefined
        THEN log' = emit(log, subscriptions[queryId], "data", m.data)
        ELSE log' = log
     /\ handledData' = IF m.event = "subscription:data"
                        THEN handledData + 1 ELSE handledData
     /\ rcvd' = IF m.event = "subscription:data" THEN Append(rcvd, m) ELSE rcvd
  /\ UNCHANGED <<callVars, subscriptions, keyOrder, emSubId, nextEm, connVars,
                 pushCount, envVars>>
  /\ UNCHANGED auxVars

\* mutant of broadcast: only the first key's emitter gets the error
broadcast_first(lg) ==
  IF keyOrder = <<>> THEN lg
  ELSE [lg EXCEPT ![subscriptions[Head(keyOrder)]] = Append(@, <<"error", errs + 1>>)]

\* emit('error', err) on every key of this.subscriptions
broadcast(lg) ==
  [e \in EmIds |->
     IF \E q \in QueryIds : subscriptions[q] = e
     THEN Append(lg[e], <<"error", errs + 1>>) ELSE lg[e]]

\* mutant of OnConnError: the records are discarded on a transport error
OnConnError_drop(s) ==
  /\ NoMicrotask
  /\ sockState[s] \in {"connecting", "open"}
  /\ errs < MaxErrors
  /\ errs' = errs + 1
  /\ sockState' = [sockState EXCEPT ![s] = "closed"]
  /\ chanState' = [chanState EXCEPT ![s] = "errored"]
  /\ log' = broadcast(log)
  /\ subscriptions' = [q \in QueryIds |-> Undefined]
  /\ keyOrder' = <<>>
  /\ timers' = [timers EXCEPT ![s] = @ + 1]
  /\ awaitingRetry' = [awaitingRetry EXCEPT ![s] = TRUE]
  /\ UNCHANGED <<callVars, emSubId, nextEm, socket, channel,
                 inbox, nextSock, joins, pushCount, sidOwner, sent, handledData, rcvd>>
  /\ UNCHANGED auxVars

\* socket.onConnError handler
OnConnError(s) ==
  /\ NoMicrotask
  /\ sockState[s] \in {"connecting", "open"}
  /\ errs < MaxErrors
  /\ errs' = errs + 1
  /\ sockState' = [sockState EXCEPT ![s] = "closed"]
  /\ chanState' = [chanState EXCEPT ![s] = "errored"]
  /\ log' = broadcast(log)
  /\ timers' = [timers EXCEPT ![s] = @ + 1]
  /\ awaitingRetry' = [awaitingRetry EXCEPT ![s] = TRUE]
  /\ UNCHANGED <<callVars, subscriptions, keyOrder, emSubId, nextEm, socket, channel,
                 inbox, nextSock, joins, pushCount, sidOwner, sent, handledData, rcvd>>
  /\ UNCHANGED auxVars

\* setTimeout callback: this.socket.connect()
TimerFire(s) ==
  /\ NoMicrotask
  /\ timers[s] > 0
  /\ timers' = [timers EXCEPT ![s] = @ - 1]
  /\ sockState' = connect(sockState, socket)
  /\ awaitingRetry' = [awaitingRetry EXCEPT ![socket] = FALSE]
  /\ UNCHANGED <<callVars, subVars, socket, channel, chanState, inbox, nextSock, joins,
                 pushCount, handledData, rcvd, envVars>>
  /\ UNCHANGED auxVars

subscriptionVars ==
  <<callVars, subVars, connVars, inbox, pushCount, handledData, rcvd, envVars>>

\* mutant of CallRequest: the request is posted before the builder runs
CallRequest_send(r, kind, a) ==
  /\ reqPc[r] = "idle"
  /\ \A d \in Reqs : d < r => reqPc[d] # "idle"
  /\ reqKind' = [reqKind EXCEPT ![r] = kind]
  /\ reqArgs' = [reqArgs EXCEPT ![r] = a]
  /\ posts' = posts + 1
  /\ reqPc' = [reqPc EXCEPT ![r] = IF builderThrows(a) THEN "argRejected" ELSE "sent"]
  /\ UNCHANGED <<reqStatus, reqData, reqResult, subscriptionVars>>
  /\ UNCHANGED ctorVars

\* queryFn(args) / mutationFn(args): build the operation, then _doRequest up
\* to its await of axios.post
CallRequest(r, kind, a) ==
  /\ reqPc[r] = "idle"
  /\ \A d \in Reqs : d < r => reqPc[d] # "idle"
  /\ reqKind' = [reqKind EXCEPT ![r] = kind]
  /\ reqArgs' = [reqArgs EXCEPT ![r] = a]
  /\ IF builderThrows(a)
     THEN /\ reqPc' = [reqPc EXCEPT ![r] = "argRejected"]
          /\ posts' = posts
     ELSE /\ reqPc' = [reqPc EXCEPT ![r] = "sent"]
          /\ posts' = posts + 1
  /\ UNCHANGED <<reqStatus, reqData, reqResult, subscriptionVars>>
  /\ UNCHANGED ctorVars

\* axios.post resolves with a response
HttpResponse(r, status, d) ==
  /\ reqPc[r] = "sent"
  /\ reqPc' = [reqPc EXCEPT ![r] = "gotResponse"]
  /\ reqStatus' = [reqStatus EXCEPT ![r] = status]
  /\ reqData' = [reqData EXCEPT ![r] = d]
  /\ UNCHANGED <<reqKind, reqArgs, reqResult, posts, subscriptionVars>>
  /\ UNCHANGED ctorVars

\* mutant of DoRequestReturn: every status below 300 counts as success
DoRequestReturn_2xx(r) ==
  /\ reqPc[r] = "gotResponse"
  /\ IF reqStatus[r] < 300
     THEN /\ reqPc' = [reqPc EXCEPT ![r] = "returned"]
          /\ reqResult' = [reqResult EXCEPT ![r] = reqData[r]]
     ELSE /\ reqPc' = [reqPc EXCEPT ![r] = "failed"]
          /\ reqResult' = reqResult
  /\ UNCHANGED <<reqKind, reqArgs, reqStatus, reqData, posts, subscriptionVars>>
  /\ UNCHANGED ctorVars

\* _doRequest after the await: return res.data.data on status 200, else throw
DoRequestReturn(r) ==
  /\ reqPc[r] = "gotResponse"
  /\ IF reqStatus[r] = StatusOK
     THEN /\ reqPc' = [reqPc EXCEPT ![r] = "returned"]
          /\ reqResult' = [reqResult EXCEPT ![r] = reqData[r]]
     ELSE /\ reqPc' = [reqPc EXCEPT ![r] = "failed"]
          /\ reqResult' = reqResult
  /\ UNCHANGED <<reqKind, reqArgs, reqStatus, reqData, posts, subscriptionVars>>
  /\ UNCHANGED ctorVars

Next ==
  \/ \E c \in Calls, a \in Args : Subscribe(c, a)
  \/ \E s \in SockIds : SocketOpen(s)
  \/ \E s \in SockIds : ChannelRejoin(s)
  \/ \E s \in SockIds : JoinOk(s)
  \/ \E s \in SockIds : JoinError(s)
  \/ \E c \in Calls : Push(c)
  \/ \E c \in Calls, sid \in SubIds : PushOk(c, sid)
  \/ \E c \in Calls : PushError(c)
  \/ \E c \in Calls : PushTimeout(c)
  \/ \E s \in SockIds, ev \in Events, sid \in SubIds, d \in Data : ServerSend(s, ev, sid, d)
  \/ \E s \in SockIds : OnMessage(s)
  \/ \E s \in SockIds : OnConnError(s)
  \/ \E s \in SockIds : TimerFire(s)

Spec == Init /\ [][Next]_vars

\* the generated query, mutation and subscription functions called side by
\* side, with arguments that may lack a required argument
ReqNext ==
  \/ \E r \in Reqs, kind \in Kinds, a \in Args \cup {Missing} : CallRequest(r, kind, a)
  \/ \E r \in Reqs, status \in Statuses, d \in Data : HttpResponse(r, status, d)
  \/ \E r \in Reqs : DoRequestReturn(r)
  \/ \E c \in Calls, a \in Args \cup {Missing} : Subscribe(c, a)
  \/ \E s \in SockIds : SocketOpen(s)
  \/ \E s \in SockIds : JoinOk(s)
  \/ \E c \in Calls : Push(c)
  \/ \E c \in Calls, sid \in SubIds : PushOk(c, sid)

ReqSpec == Init /\ [][ReqNext]_vars

\* new BaseClient(config) for a schema and a config
Construct ==
  /\ ~constructed
  /\ self' = Built(roots, enable, refs, retType)
  /\ constructed' = TRUE
  /\ UNCHANGED <<roots, enable, refs, retType, reqVars, subscriptionVars>>

\* getQueries() / getSubscriptions() / getMutations() read the object only
GetApiList(type) ==
  /\ constructed
  /\ _getApiList(type) \subseteq Names
  /\ UNCHANGED vars

RootSets ==
  {[present |-> FALSE, fields |-> {}]} \cup
  {[present |-> TRUE, fields |-> f] : f \in SUBSET Names}

CtorInit ==
  /\ roots \in [RootKinds -> RootSets]
  /\ enable \in [RootKinds -> BOOLEAN]
  /\ refs \in [Types -> SUBSET Types]
  /\ retType \in [Names -> Types]
  /\ self = [n \in Names |-> NoProp]
  /\ constructed = FALSE
  /\ ClientInit

CtorNext ==
  \/ Construct
  \/ \E type \in RootKinds : GetApiList(type)

CtorSpec == CtorInit /\ [][CtorNext]_vars

\* the event loop runs every pending continuation, timer and message handler;
\* the socket finishes connecting, the channel rejoins, and every join and
\* every push gets a reply or times out
FairSpec ==
  /\ Spec
  /\ WF_vars(\E c \in Calls : Push(c))
  /\ WF_vars(\E s \in SockIds : TimerFire(s))
  /\ WF_vars(\E s \in SockIds : OnMessage(s))
  /\ WF_vars(\E s \in SockIds : SocketOpen(s))
  /\ WF_vars(\E s \in SockIds : ChannelRejoin(s))
  /\ WF_vars(\E s \in SockIds : JoinOk(s) \/ JoinError(s))
  /\ WF_vars(\E c \in Calls : PushError(c) \/ PushTimeout(c) \/ \E sid \in SubIds : PushOk(c, sid))

\* ------------------------------------------------------------- properties
Records == {q \in QueryIds : subscriptions[q] # Undefined}

\* calls other than c1, c2 that were made for the queryId q
Others(c1, c2, q) == {d \in Calls \ {c1, c2} : callQid[d] = q}

TypeOK ==
  /\ nextSock \in 1..(NumCalls + 1)
  /\ nextEm \in 1..(NumCalls + 1)
  /\ \A c \in Calls : result[c] \in {NoResult, Undefined} \cup EmIds
  /\ \A q \in QueryIds : subscriptions[q] \in {Undefined} \cup EmIds
  /\ Len(keyOrder) = Cardinality(Records)
  /\ joins = nextSock - 1

\* C1: when the same rendered query is subscribed twice, the second call made
\* after the first resolved, both calls resolve to the same eventStream and
\* exactly one 'doc' push was sent for the queryId.
C1_SameStreamOnePush ==
  \A c1, c2 \in Calls :
    ( /\ c1 # c2
      /\ callQid[c1] = callQid[c2]
      /\ pc[c1] = "acked"
      /\ c1 \in before[c2]
      /\ Others(c1, c2, callQid[c1]) = {} )
    => /\ pc[c2] \in {"cached", "acked"}
       /\ result[c2] = result[c1]
       /\ pushCount[callQid[c1]] = 1

\* C2: at most one 'doc' push is issued per queryId and at most one push per
\* queryId is acknowledged by the server, under every interleaving.
C2_AtMostOnePush ==
  \A q \in QueryIds :
    /\ pushCount[q] <= 1
    /\ Cardinality({c \in Calls : callQid[c] = q /\ pc[c] = "acked"}) <= 1

\* C3: while all callers so far are still waiting for the first join, exactly
\* one socket was created, one join was issued, and every waiting caller
\* awaits that same join.
C3_OneConnectionAttempt ==
  ( /\ \E c \in Calls : pc[c] = "awaitJoin"
    /\ \A c \in Calls : pc[c] \in {"idle", "awaitJoin"}
    /\ errs = 0 )
  => /\ nextSock = 2
     /\ joins = 1
     /\ \A c1, c2 \in Calls :
          pc[c1] = "awaitJoin" /\ pc[c2] = "awaitJoin" => callChan[c1] = callChan[c2]

\* C4: a client never has two socket instances: no second socket is created
\* while an earlier one exists (sockets are never disposed of).
C4_SingleSocket ==
  \A s1, s2 \in SockIds :
    sockState[s1] # "none" /\ sockState[s2] # "none" => s1 = s2

\* C5: a transport error emits an 'error' event carrying the error on the
\* eventStream of every record that is in the subscriptions map at that moment.
C5_ErrorBroadcast ==
  [][ errs' = errs + 1 =>
        \A q \in QueryIds :
          subscriptions[q] # Undefined =>
            log'[subscriptions[q]] = Append(log[subscriptions[q]], <<"error", errs'>>)
    ]_vars

C5_Witness ==
  \E q1, q2 \in Records :
    /\ q1 # q2
    /\ log[subscriptions[q1]] = <<<<"error", 1>>>>
    /\ log[subscriptions[q2]] = <<<<"error", 1>>>>

\* C6: when the reconnect timer armed by a socket's transport error fires,
\* connect() is attempted on the socket that reported the error.
C6_ReconnectSameSocket ==
  [][ \A s \in SockIds : timers'[s] < timers[s] => ~awaitingRetry'[s] ]_vars

\* a message is taken from the inbox of socket s by the onMessage handler
Handled(s) == inbox[s] # <<>> /\ inbox'[s] = Tail(inbox[s])

\* C7: a 'subscription:data' event whose subscriptionId is that of a record
\* emits one 'data' event with the payload's data on that record's eventStream
\* and nothing on any other eventStream.
C7_DataToMatchingRecord ==
  [][ \A s \in SockIds : Handled(s) =>
        LET m == Head(inbox[s]) IN
        \A q \in QueryIds :
          ( /\ m.event = "subscription:data"
            /\ subscriptions[q] # Undefined
            /\ emSubId[subscriptions[q]] = m.subscriptionId )
          => /\ log'[subscriptions[q]] = Append(log[subscriptions[q]], <<"data", m.data>>)
             /\ \A e \in EmIds \ {subscriptions[q]} : log'[e] = log[e]
    ]_vars

C7_Witness ==
  \E q1, q2 \in Records :
    /\ q1 # q2
    /\ Len(log[subscriptions[q1]]) = 1
    /\ log[subscriptions[q1]][1][1] = "data"
    /\ log[subscriptions[q2]] = <<>>
    /\ emSubId[subscriptions[q1]] # emSubId[subscriptions[q2]]
    /\ handledData = 1

\* C8: a push event whose subscriptionId matches no record changes nothing
\* but the inbox: no event on any eventStream, the subscriptions map, the
\* calls and the socket/channel state stay as they are.
C8_UnknownIdDropped ==
  [][ \A s \in SockIds : Handled(s) =>
        LET m == Head(inbox[s]) IN
        (\A q \in Records : emSubId[subscriptions[q]] # m.subscriptionId)
        => UNCHANGED <<callVars, subVars, connVars, pushCount, sidOwner, sent, errs>>
    ]_vars

C8_Witness ==
  /\ handledData >= 1
  /\ Records # {}
  /\ \E i \in SubIds : sidOwner[i] = Undefined
  /\ \A e \in EmIds : log[e] = <<>>
  /\ \A s \in SockIds : inbox[s] = <<>>

\* c2 was made after c1's push was rejected, and no other call shares their queryId
C9_Later(c1, c2) ==
  /\ c1 # c2
  /\ pc[c1] = "pushRejected"
  /\ c1 \in before[c2]
  /\ callQid[c1] = callQid[c2]
  /\ Others(c1, c2, callQid[c1]) = {}

\* C9: an 'error' reply to a 'doc' push rejects the call and creates no record,
\* so a later call for the same queryId is not served from the map and issues
\* a new push.
C9_RejectedNoRecord ==
  /\ [][ \A c \in Calls :
           pc[c] = "awaitPush" /\ pc'[c] = "pushRejected" =>
             /\ subscriptions' = subscriptions
             /\ keyOrder' = keyOrder
             /\ nextEm' = nextEm
             /\ result'[c] = NoResult
       ]_vars
  /\ [](\A c1, c2 \in Calls :
          C9_Later(c1, c2) =>
            /\ pc[c2] # "cached"
            /\ pc[c2] \in {"awaitJoin", "gotChannel"} => subscriptions[callQid[c2]] = Undefined
            /\ pc[c2] \in {"awaitPush", "acked", "pushRejected"} => pushCount[callQid[c2]] = 2)

C9_Witness ==
  \E c1, c2 \in Calls :
    /\ C9_Later(c1, c2)
    /\ pc[c2] = "acked"
    /\ pushCount[callQid[c2]] = 2

\* C10: two calls with different arguments have different queryIds, each
\* issues its own 'doc' push, and they resolve to two distinct eventStreams,
\* each carrying the subscriptionId acknowledged for its own push.
C10_DistinctQueries ==
  \A c1, c2 \in Calls :
    ( /\ c1 # c2
      /\ pc[c1] = "acked"
      /\ pc[c2] = "acked"
      /\ callArgs[c1] # callArgs[c2] )
    => /\ callQid[c1] # callQid[c2]
       /\ pushCount[callQid[c1]] >= 1
       /\ pushCount[callQid[c2]] >= 1
       /\ (Others(c1, c2, callQid[c1]) = {} => pushCount[callQid[c1]] = 1)
       /\ result[c1] \in EmIds
       /\ result[c2] \in EmIds
       /\ result[c1] # result[c2]
       /\ emSubId[result[c1]] = ackSid[c1]
       /\ emSubId[result[c2]] = ackSid[c2]

C10_Witness ==
  \E c1, c2 \in Calls :
    /\ c1 # c2
    /\ pc[c1] = "acked"
    /\ pc[c2] = "acked"
    /\ callArgs[c1] # callArgs[c2]
    /\ subscriptions[callQid[c1]] = result[c1]
    /\ subscriptions[callQid[c2]] = result[c2]

\* a step of the error / reconnect cycle: a transport error, the reconnect
\* timer, the socket connecting or opening again, the channel joining again
ReconnectStep ==
  \/ errs' # errs
  \/ timers' # timers
  \/ sockState' # sockState /\ nextSock' = nextSock
  \/ \E s \in SockIds : chanState[s] = "errored" /\ chanState'[s] # "errored"

\* C11: a transport error and the automatic reconnect leave the queryId to
\* record mapping as it is: no record is removed or replaced, and each record
\* keeps its eventStream and its serverSubscriptionId.
C11_RecordsSurviveReconnect ==
  [][ ReconnectStep =>
        /\ subscriptions' = subscriptions
        /\ keyOrder' = keyOrder
        /\ emSubId' = emSubId
    ]_vars

C11_Witness ==
  \E q \in Records :
    /\ errs = 1
    /\ nextSock = 2
    /\ log[subscriptions[q]] = <<<<"error", 1>>>>
    /\ timers[1] = 0
    /\ ~awaitingRetry[1]
    /\ \E c \in Calls : pc[c] = "acked" /\ result[c] = subscriptions[q]
    /\ sockState[1] = "open"
    /\ chanState[1] = "joined"

\* the payloads of the 'data' events of a log, in order
RECURSIVE DataOf(_)
DataOf(lg) ==
  IF lg = <<>> THEN <<>>
  ELSE IF Head(lg)[1] = "data" THEN <<Head(lg)[2]>> \o DataOf(Tail(lg))
       ELSE DataOf(Tail(lg))

\* the payloads of the received messages that carry subscription id sid, in order
RECURSIVE ReceivedFor(_, _)
ReceivedFor(msgs, sid) ==
  IF msgs = <<>> THEN <<>>
  ELSE IF Head(msgs).subscriptionId = sid
       THEN <<Head(msgs).data>> \o ReceivedFor(Tail(msgs), sid)
       ELSE ReceivedFor(Tail(msgs), sid)

\* a is b with some elements left out, the order kept
RECURSIVE IsSubseq(_, _)
IsSubseq(a, b) ==
  IF a = <<>> THEN TRUE
  ELSE IF b = <<>> THEN FALSE
  ELSE IF Head(a) = Head(b) THEN IsSubseq(Tail(a), Tail(b))
       ELSE IsSubseq(a, Tail(b))

C17_PushOnlyAfterJoin ==
  [][ \A c \in Calls :
        /\ (pc[c] = "gotChannel" /\ pc'[c] = "awaitPush") => isJoined(callChan[c])
        /\ (pc[c] = "idle" /\ pc'[c] = "gotChannel") =>
              /\ callChan'[c] = channel
              /\ isJoined(channel)
              /\ nextSock' = nextSock
              /\ joins' = joins
        /\ (pc[c] = "awaitJoin" /\ pc'[c] = "joinRejected") =>
              /\ pushCount' = pushCount
              /\ subscriptions' = subscriptions
        /\ pc[c] = "joinRejected" => pc'[c] = "joinRejected"
    ]_vars

\* the last event of a log is an 'error' event that the step has added
ErrorAdded(e) ==
  /\ Len(log'[e]) > Len(log[e])
  /\ log'[e][Len(log'[e])][1] = "error"

\* a transport error has happened and the reconnect is done: no timer is
\* armed and no socket is closed or connecting
Reconnected ==
  /\ errs >= 1
  /\ \A s \in SockIds : timers[s] = 0 /\ sockState[s] \in {"none", "open"}

\* C18: after a transport error and reconnect, no 'doc' push is issued for a
\* queryId that already has a record, and the only 'error' events on an
\* eventStream are those broadcast by a transport error.
C18_NoPushForExistingRecord ==
  [][ /\ Reconnected =>
           \A q \in QueryIds : pushCount'[q] > pushCount[q] => subscriptions[q] = Undefined
      /\ \A e \in EmIds : ErrorAdded(e) => errs' = errs + 1
    ]_vars

\* C19: the eventStream a subscribe call resolved to stays the stream
\* registered for its queryId: no later acknowledgement replaces the record.
C19_ResolvedStreamStays ==
  \A c \in Calls :
    pc[c] = "acked" => subscriptions[callQid[c]] = result[c]

\* C20: every subscribe call that was made eventually settles: its promise
\* resolves with an eventStream or rejects with an error.
C20_EverySubscribeSettles ==
  \A c \in Calls : [](pc[c] # "idle" => <>(pc[c] \in Settled))

\* C13: when the builder fails on the call-time arguments, the call fails and
\* nothing is sent: no HTTP request for a query or mutation; no socket, no
\* join and no 'doc' push for a subscription.
C13_BuilderFailureSendsNothing ==
  [][ /\ \A r \in Reqs :
           (reqPc[r] = "idle" /\ reqPc'[r] # "idle" /\ builderThrows(reqArgs'[r])) =>
             /\ reqPc'[r] = "argRejected"
             /\ posts' = posts
      /\ \A c \in Calls :
           (pc[c] = "idle" /\ pc'[c] # "idle" /\ builderThrows(callArgs'[c])) =>
             /\ pc'[c] = "argRejected"
             /\ UNCHANGED <<connVars, pushCount, subVars>>
      /\ \A r \in Reqs : reqPc[r] = "argRejected" => reqPc'[r] = "argRejected"
      /\ \A c \in Calls : pc[c] = "argRejected" => pc'[c] = "argRejected"
    ]_vars

C13_Witness ==
  /\ \E r1, r2 \in Reqs :
       /\ reqPc[r1] = "argRejected" /\ reqKind[r1] = "query"
       /\ reqPc[r2] = "argRejected" /\ reqKind[r2] = "mutation"
  /\ \E c \in Calls : pc[c] = "argRejected"
  /\ posts = 0
  /\ nextSock = 1
  /\ joins = 0
  /\ \A q \in QueryIds : pushCount[q] = 0

\* C15: a query or mutation returns the response's data payload when the
\* status is 200 and fails for any other status; only that call is affected,
\* no other call and no subscription state.
C15_RequestStatus ==
  [][ \A r \in Reqs :
        (reqPc[r] = "gotResponse" /\ reqPc'[r] # "gotResponse") =>
          /\ IF reqStatus[r] = StatusOK
             THEN reqPc'[r] = "returned" /\ reqResult'[r] = reqData[r]
             ELSE reqPc'[r] = "failed" /\ reqResult'[r] = NoResult
          /\ \A o \in Reqs \ {r} : reqPc'[o] = reqPc[o] /\ reqResult'[o] = reqResult[o]
          /\ UNCHANGED subscriptionVars
    ]_vars

C15_Witness ==
  \E r1, r2 \in Reqs :
    /\ reqPc[r1] = "returned" /\ reqStatus[r1] = StatusOK /\ reqResult[r1] = reqData[r1]
    /\ reqPc[r2] = "failed" /\ reqStatus[r2] = 201
    /\ \E c \in Calls : pc[c] = "acked"

\* the operation names the schema and the config give to a kind
Expected(kind) ==
  IF enable[kind] /\ roots[kind].present THEN roots[kind].fields ELSE {}

\* C14: after construction every operation field of every enabled root type
\* is a callable tagged with its own kind, and getQueries / getMutations /
\* getSubscriptions list exactly the operation names of their kind, also when
\* a name is used under two root types.
C14_ApiListsByKind ==
  constructed =>
    \A kind \in RootKinds : _getApiList(kind) = Expected(kind)

\* a type occurs twice on a path
Reenters(p) == \E i, j \in 1..Len(p) : i < j /\ p[i] = p[j]

\* C16: with a schema that has cyclic object types, construction ends and
\* every rendered selection set is cut where a type would be entered again:
\* no path of it enters a type twice, so none is longer than the type count.
C16_CyclicSchemaTruncated ==
  constructed =>
    \A n \in Names : \A p \in self[n].builder :
      /\ ~Reenters(p)
      /\ Len(p) <= NumTypes

C16_Witness ==
  /\ constructed
  /\ \A t \in Types : refs[t] = Types
  /\ \E n \in Names :
       /\ self[n].type = "query"
       /\ <<retType[n]>> \in self[n].builder
       /\ \E p \in self[n].builder : Len(p) = NumTypes
====
